---------------------------- MODULE Spec2Model ----------------------------
(***************************************************************************)
(* A model of the STV tabulation engine of UC_STV: the ElectionRace state  *)
(* machine (backend/ElectionRace.py) and the quota providers               *)
(* (backend/ElectionQuotas.py).                                            *)
(*                                                                         *)
(* Candidates and voters are identified by small integers.  Ballot values, *)
(* scores and transfer values are exact rationals <<numerator,             *)
(* denominator>> in lowest terms.  The round object (ElectionRaceRound),   *)
(* the candidate state (ElectionCandidateState) and the voter are modelled *)
(* from their documented contract.                                         *)
(***************************************************************************)
EXTENDS Integers, Sequences, FiniteSets, TLC

\* ------------------------------------------------------------------ bounds
MaxCandidates == 3
MaxVoters == 3
MaxWinners == 2
MaxPrefLen == 2
\* The inputs of the quota objects: voters up to MaxQuotaVoters, max_winners up
\* to MaxQuotaWinners, both down to -MaxQuotaInvalid.
MaxQuotaVoters == 12
MaxQuotaWinners == 4
MaxQuotaInvalid == 3

CandidateIds == 1 .. MaxCandidates
VoterIds == 1 .. MaxVoters
\* The key of the bucket of exhausted ballots (None in the source).
NoCandidate == 0

VARIABLES
    state,                     \* ElectionRace._state
    max_winners,               \* ElectionRace._max_winners
    election_quota_algorithm,  \* ElectionRace._election_quota_algorithm
    voters,                    \* ElectionRace._voters
    rounds,                    \* ElectionRace._rounds
    winners,                   \* ElectionRace._winners
    candidates,                \* ElectionRace._candidates
    transfer_voters,           \* ElectionRace._transfer_voters
    candidate_id,              \* ElectionRace._candidate_id
    preferences,               \* per voter: the ranked candidate ids for this race
    voter_value,               \* per voter: the current transfer value for this race
    result,                    \* how the last call ended: "ok" or the error raised
    pc,                        \* "idle", or "run_complete" while its loop is running
    quota_provider             \* a HareQuota / DroopQuota object and how get_quota() ended

vars == <<state, max_winners, election_quota_algorithm, voters, rounds, winners,
          candidates, transfer_voters, candidate_id, preferences, voter_value,
          result, pc, quota_provider>>

\* ------------------------------------------------------- sequences helpers
Range(s) == {s[i] : i \in 1 .. Len(s)}

Front(s) == SubSeq(s, 1, Len(s) - 1)

Last(s) == s[Len(s)]

Contains(s, x) == \E i \in 1 .. Len(s) : s[i] = x

\* F applied to the value of x, x being evaluated once.
Strict(x, F(_)) == CHOOSE r \in {F(v) : v \in {x}} : TRUE

\* list.remove(x): drops the first occurrence of x.
RECURSIVE Remove(_, _)
Remove(s, x) ==
    IF s = <<>> THEN <<>>
    ELSE IF Head(s) = x THEN Tail(s)
    ELSE <<Head(s)>> \o Remove(Tail(s), x)

\* Every iteration order of a set: a Python set is iterated in an order the
\* program does not control.
Orders(S) ==
    {o \in [1 .. Cardinality(S) -> S] : \A i, j \in 1 .. Cardinality(S) : i # j => o[i] # o[j]}

\* All preference lists: sequences of distinct candidate ids.
PreferenceLists ==
    UNION {{p \in [1 .. n -> CandidateIds] : \A i, j \in 1 .. n : i # j => p[i] # p[j]}
           : n \in 0 .. MaxPrefLen}

\* ------------------------------------------------------ exact rationals
RECURSIVE GCD(_, _)
GCD(a, b) == IF b = 0 THEN a ELSE Strict(a % b, LAMBDA r : GCD(b, r))

\* The rational n/d in lowest terms (d > 0).
Rat(n, d) ==
    Strict(<<n, d>>, LAMBDA p :
        Strict(GCD(p[1], p[2]), LAMBDA g : <<p[1] \div g, p[2] \div g>>))

RZero == <<0, 1>>

ROne == <<1, 1>>

RInt(n) == <<n, 1>>

RAdd(x, y) ==
    Strict(<<x, y>>, LAMBDA p : Rat(p[1][1] * p[2][2] + p[2][1] * p[1][2], p[1][2] * p[2][2]))

RSub(x, y) ==
    Strict(<<x, y>>, LAMBDA p : Rat(p[1][1] * p[2][2] - p[2][1] * p[1][2], p[1][2] * p[2][2]))

RMul(x, y) ==
    Strict(<<x, y>>, LAMBDA p : Rat(p[1][1] * p[2][1], p[1][2] * p[2][2]))

\* x / y for y > 0.
RDiv(x, y) ==
    Strict(<<x, y>>, LAMBDA p : Rat(p[1][1] * p[2][2], p[1][2] * p[2][1]))

RLess(x, y) ==
    Strict(<<x, y>>, LAMBDA p : p[1][1] * p[2][2] < p[2][1] * p[1][2])

RLeq(x, y) ==
    Strict(<<x, y>>, LAMBDA p : p[1][1] * p[2][2] <= p[2][1] * p[1][2])

\* ------------------------------------------------------------- quotas
Abs(x) == IF x < 0 THEN 0 - x ELSE x

\* int(a / b) for b # 0: the quotient truncated towards zero.
TruncDiv(a, b) ==
    LET q == Abs(a) \div Abs(b)
    IN  IF (a < 0) # (b < 0) THEN 0 - q ELSE q

\* HareQuota.get_quota raises ZeroDivisionError.
HareQuotaRaises(nvoters, nwinners) == nwinners = 0

\* HareQuota.get_quota
HareQuota(nvoters, nwinners) ==
    LET return_value == TruncDiv(nvoters, nwinners)
    IN  IF return_value > 0 THEN return_value ELSE 1

DroopQuota_one_formula(nvoters, nwinners) ==
    LET return_value ==
            IF nwinners >= 1 THEN TruncDiv(nvoters + nwinners + 1, nwinners + 1)
            ELSE 0
    IN  IF return_value > 0 THEN return_value ELSE 1

DroopQuota_no_floor(nvoters, nwinners) ==
    IF nwinners > 1 THEN TruncDiv(nvoters + nwinners + 1, nwinners + 1)
    ELSE IF nwinners = 1 THEN TruncDiv(nvoters + 1, 2)
    ELSE 0

\* DroopQuota.get_quota.  int(v / (m + 1) + 1) truncates the sum, which is
\* (v + m + 1) / (m + 1).
DroopQuota(nvoters, nwinners) ==
    LET return_value ==
            IF nwinners > 1 THEN TruncDiv(nvoters + nwinners + 1, nwinners + 1)
            ELSE IF nwinners = 1 THEN TruncDiv(nvoters + 1, 2)
            ELSE 0
    IN  IF return_value > 0 THEN return_value ELSE 1

\* ElectionRace.quota
quotaOf(algorithm, nvoters, nwinners) ==
    IF algorithm = "droop" THEN DroopQuota(nvoters, nwinners)
    ELSE HareQuota(nvoters, nwinners)

quota == quotaOf(election_quota_algorithm, Len(voters), max_winners)

\* ------------------------------------------------- ElectionCandidateState
\* A candidate state is the kind and the number of the round that assigned it.
ElectionCandidateState(round, kind) == [kind |-> kind, round |-> round]

\* ------------------------------------------------------ ElectionRaceRound
\* ElectionRaceRound(parent, number) followed by add_candidate for every
\* candidate: the post-state starts equal to the pre-state.
NewRound(number, pre) ==
    [round   |-> number,
     state   |-> "INCOMPLETE",
     pre     |-> pre,
     post    |-> pre,
     ballots |-> [b \in DOMAIN pre \cup {NoCandidate} |-> <<>>]]

\* ElectionRaceRound.add_ballot: a ballot goes to the bucket of its top
\* preference, or to the exhausted bucket.
add_ballot(R, ballot) ==
    [R EXCEPT !.ballots[ballot.top] = Append(@, ballot)]

RECURSIVE add_ballots(_, _)
add_ballots(R, ballots) ==
    IF ballots = <<>> THEN R
    ELSE add_ballots(add_ballot(R, Head(ballots)), Tail(ballots))

complete_never(R) == R

\* ElectionRaceRound.complete
complete(R) == [R EXCEPT !.state = "COMPLETE"]

\* ElectionRaceRound.get_candidate_ballots
get_candidate_ballots(R, c) == R.ballots[c]

\* ElectionRaceRound.get_candidate_voters
get_candidate_voters(R, c) ==
    [i \in 1 .. Len(R.ballots[c]) |-> R.ballots[c][i].voter]

RECURSIVE SumValues(_)
SumValues(ballots) ==
    IF ballots = <<>> THEN RZero
    ELSE RAdd(Head(ballots).value, SumValues(Tail(ballots)))

\* ElectionRaceRound.get_candidate_score
get_candidate_score(R, c) == SumValues(R.ballots[c])

\* ElectionRaceRound.get_candidates_score
get_candidates_score(R) == [c \in DOMAIN R.pre |-> get_candidate_score(R, c)]

\* ElectionRaceRound.get_candidates_by_state(which)[kind]
get_candidates_by_state(R, which, kind) ==
    IF which = "PRE" THEN {c \in DOMAIN R.pre : R.pre[c].kind = kind}
    ELSE {c \in DOMAIN R.post : R.post[c].kind = kind}

\* ElectionRaceRound.get_candidates_changed
get_candidates_changed(R) == {c \in DOMAIN R.pre : R.pre[c] # R.post[c]}

\* The voter's ballot for a round: its preferences restricted to the RUNNING
\* candidates, carrying the voter's current transfer value.
get_race_voter_ballot(v, prefs, value, running) ==
    LET left == SelectSeq(prefs, LAMBDA c : c \in running)
    IN  [voter |-> v,
         value |-> value,
         top   |-> IF left = <<>> THEN NoCandidate ELSE Head(left)]


\* ------------------------------------------------------------ sorting
\* sorted(s, key=key.get, reverse=True): by descending key, and stable (the
\* elements of equal key keep the order they have in s).
SortDesc(s, key) ==
    LET Before(i) ==
            Cardinality({j \in 1 .. Len(s) :
                \/ RLess(key[s[i]], key[s[j]])
                \/ key[s[j]] = key[s[i]] /\ j < i})
    IN  [p \in 1 .. Len(s) |-> s[CHOOSE i \in 1 .. Len(s) : Before(i) = p - 1]]

\* ------------------------------------------ ElectionRace.run: tabulation
SelectWinners_any_score(running, order, keys, scores, max_round_winners, q) ==
    IF Cardinality(running) <= max_round_winners THEN order
    ELSE SelectSeq(SortDesc(keys, scores), LAMBDA c : c \in running)

SelectWinners_quota_only(running, order, keys, scores, max_round_winners, q) ==
    SelectSeq(SortDesc(keys, scores),
              LAMBDA c : c \in running /\ RLeq(RInt(q), scores[c]))

\* Winner selection: every RUNNING candidate when they fit the remaining
\* seats, else the RUNNING candidates that meet the quota, by descending score.
\* `order` is the iteration order of the set of RUNNING candidates, `keys` the
\* order of the keys of the score mapping.
SelectWinners(running, order, keys, scores, max_round_winners, q) ==
    IF Cardinality(running) <= max_round_winners THEN order
    ELSE SelectSeq(SortDesc(keys, scores),
                   LAMBDA c : c \in running /\ RLeq(RInt(q), scores[c]))

\* The inner loop of the overflow resolution: compare the tied candidates by
\* their scores in earlier rounds, p being the index of previous_round.
RECURSIVE ResolveByPreviousRounds(_, _, _, _, _)
ResolveByPreviousRounds(rs, round_winners, lowest_winners, p, max_round_winners) ==
    IF Len(round_winners) <= max_round_winners
    THEN [err |-> "ok", winners |-> round_winners]
    ELSE Strict(get_candidates_score(rs[p]), LAMBDA previous_round_scores :
         Strict(SortDesc(lowest_winners, previous_round_scores),
                LAMBDA previous_round_lowest_winners :
             LET n == Len(previous_round_lowest_winners)
             IN  IF n < 2 THEN [err |-> "IndexError", winners |-> round_winners]
                 ELSE IF previous_round_scores[previous_round_lowest_winners[n]]
                             # previous_round_scores[previous_round_lowest_winners[n - 1]]
                 THEN Strict(<<Remove(round_winners, previous_round_lowest_winners[n]),
                               Remove(lowest_winners, previous_round_lowest_winners[n])>>,
                             LAMBDA left :
                                 ResolveByPreviousRounds(rs, left[1], left[2], p,
                                                         max_round_winners))
                 ELSE IF p = 1 THEN [err |-> "UnresolvableTie", winners |-> round_winners]
                 ELSE ResolveByPreviousRounds(rs, round_winners, lowest_winners, p - 1,
                                              max_round_winners)))

\* The overflow resolution: more round winners than seats remain.  rs are the
\* rounds of the race, the last one being the current round.
RECURSIVE ResolveOverflow(_, _, _, _)
ResolveOverflow(rs, round_winners, scores, max_round_winners) ==
    LET n == Len(round_winners)
    IN  IF n <= max_round_winners THEN [err |-> "ok", winners |-> round_winners]
        ELSE IF n < 2 THEN [err |-> "IndexError", winners |-> round_winners]
        ELSE IF scores[round_winners[n]] # scores[round_winners[n - 1]]
        THEN ResolveOverflow(rs, Front(round_winners), scores, max_round_winners)
        ELSE LET lowest_winner_score == scores[round_winners[n]]
                 lowest_winners ==
                     SelectSeq(round_winners, LAMBDA c : scores[c] = lowest_winner_score)
             IN  IF Len(rs) = 1
                 THEN [err |-> "UnresolvableTie", winners |-> round_winners]
                 ELSE ResolveByPreviousRounds(rs, round_winners, lowest_winners,
                                              Len(rs) - 1, max_round_winners)

TransferValue_always_one(candidate_score, q) == ROne

\* The transfer value of an elected candidate's ballots.
TransferValue(candidate_score, q) ==
    Strict(RSub(candidate_score, RInt(q)), LAMBDA surplus :
        IF RLess(RZero, surplus) THEN RDiv(surplus, candidate_score) ELSE ROne)

\* set_race_voter_value for every ballot of an elected candidate.
RECURSIVE SetVoterValues(_, _, _)
SetVoterValues(values, ballots, transfer_value) ==
    IF ballots = <<>> THEN values
    ELSE SetVoterValues(
             [values EXCEPT ![Head(ballots).voter] = RMul(Head(ballots).value, transfer_value)],
             Tail(ballots), transfer_value)

\* One pass of the loop that sets the winners of round R: the candidate is
\* WON, its voters get their transfer value and join the transfer queue, and
\* the candidate joins the winners.
CommitWinner(acc, R, c, scores, q) ==
    [acc EXCEPT
        !.post[c]  = ElectionCandidateState(R.round, "WON"),
        !.values   = Strict(TransferValue(scores[c], q), LAMBDA transfer_value :
                         SetVoterValues(@, get_candidate_ballots(R, c), transfer_value)),
        !.transfer = @ \o get_candidate_voters(R, c),
        !.winners  = Append(@, c)]

RECURSIVE CommitWinners(_, _, _, _, _)
CommitWinners(acc, R, round_winners, scores, q) ==
    IF round_winners = <<>> THEN acc
    ELSE CommitWinners(CommitWinner(acc, R, Head(round_winners), scores, q),
                       R, Tail(round_winners), scores, q)

\* The loop that eliminates the candidates cs of round R, the voters of each
\* joining the transfer queue.
RECURSIVE Eliminate(_, _, _)
Eliminate(acc, R, cs) ==
    IF cs = <<>> THEN acc
    ELSE Eliminate(
             [acc EXCEPT
                 !.post[Head(cs)] = ElectionCandidateState(R.round, "ELIMINATED"),
                 !.transfer = @ \o get_candidate_voters(R, Head(cs))],
             R, Tail(cs))

\* The scan for the candidates of lowest score, over the RUNNING candidates
\* in iteration order.
LowestStep(lowest_candidates, c, scores) ==
    IF RLess(scores[c], scores[lowest_candidates[1]]) THEN <<c>>
    ELSE IF scores[c] = scores[lowest_candidates[1]] /\ ~Contains(lowest_candidates, c)
    THEN Append(lowest_candidates, c)
    ELSE lowest_candidates

RECURSIVE LowestScan(_, _, _)
LowestScan(lowest_candidates, order, scores) ==
    IF order = <<>> THEN lowest_candidates
    ELSE Strict(lowest_candidates,
                LAMBDA l : LowestScan(LowestStep(l, Head(order), scores), Tail(order), scores))

\* The candidates eliminated by a round without winners, in the order in
\* which the code eliminates them.
EliminatedCandidates(order, scores) ==
    LET zero == SelectSeq(order, LAMBDA c : scores[c] = RZero)
        rest == SelectSeq(order, LAMBDA c : ~Contains(zero, c))
        lowest_candidates ==
            IF rest = <<>> THEN <<>> ELSE LowestScan(<<Head(rest)>>, order, scores)
    IN  zero \o lowest_candidates

EliminateRemaining_none(R, post) == post

EliminateRemaining_all(R, post) ==
    [c \in DOMAIN post |-> ElectionCandidateState(R.round, "ELIMINATED")]

\* The candidates still RUNNING after the winners are set become ELIMINATED
\* once every seat is taken; their voters are not queued.
EliminateRemaining(R, post) ==
    [c \in DOMAIN post |->
        IF post[c].kind = "RUNNING" THEN ElectionCandidateState(R.round, "ELIMINATED")
        ELSE post[c]]

RaiseError_after_completing(R, state2, err) ==
    [state |-> state2, round |-> complete(R), winners |-> winners,
     transfer |-> transfer_voters, values |-> voter_value, result |-> err]

\* The overflow resolution raised: the step ends there, before any winner is
\* set.
RaiseError(R, state2, err) ==
    [state |-> state2, round |-> R, winners |-> winners,
     transfer |-> transfer_voters, values |-> voter_value, result |-> err]

\* The end of a tabulation whose round winners are settled: the winners are
\* set, or, when there is none, the lowest candidates are eliminated.
Settle(R, state2, order, scores, resolved) ==
    LET acc == [post |-> R.post, values |-> voter_value,
                transfer |-> transfer_voters, winners |-> winners]
    IN  IF resolved.err # "ok"
        THEN RaiseError(R, state2, resolved.err)
        ELSE IF resolved.winners # <<>>
        THEN Strict(CommitWinners(acc, R, resolved.winners, scores, quota),
                LAMBDA won :
                    LET post3 == IF Len(won.winners) = max_winners
                                 THEN EliminateRemaining(R, won.post) ELSE won.post
                    IN  [state |-> IF \E c \in DOMAIN post3 : post3[c].kind = "RUNNING"
                                   THEN state2 ELSE "COMPLETE",
                         round |-> complete([R EXCEPT !.post = post3]),
                         winners |-> won.winners, transfer |-> won.transfer,
                         values |-> won.values, result |-> "ok"])
        ELSE Strict(Eliminate(acc, R, EliminatedCandidates(order, scores)),
                LAMBDA lost :
                    [state |-> state2, round |-> complete([R EXCEPT !.post = lost.post]),
                     winners |-> winners, transfer |-> lost.transfer,
                     values |-> voter_value, result |-> "ok"])

\* The tabulation of the current round, `order` being the iteration order of
\* the set of RUNNING candidates: the values of the race after the step.
Tabulate(order) ==
    LET current_round == rounds[Len(rounds)]
        current_round_scores == get_candidates_score(current_round)
        running_candidates == get_candidates_by_state(current_round, "PRE", "RUNNING")
        state1 == IF Cardinality(running_candidates) = 0 THEN "COMPLETE" ELSE "TABULATING"
        round2 == IF Len(voters) = 0 THEN complete(current_round) ELSE current_round
        state2 == IF Len(voters) = 0 THEN "COMPLETE" ELSE state1
        max_round_winners == max_winners - Len(winners)
    IN  Strict(current_round_scores, LAMBDA scores :
            Strict(SelectWinners(running_candidates, order, candidates, scores,
                                 max_round_winners, quota),
                   LAMBDA selected :
                       Strict(ResolveOverflow(rounds, selected, scores, max_round_winners),
                              LAMBDA resolved :
                                  Settle(round2, state2, order, scores, resolved))))

\* ---------------------------------------- ElectionRace.run: the other steps
\* The first round: every candidate RUNNING.
FirstRound ==
    NewRound(1, [c \in Range(candidates) |-> ElectionCandidateState(1, "RUNNING")])

\* The candidates of the race in sequence, restricted to a set.
InOrder(S) == SelectSeq(candidates, LAMBDA c : c \in S)

RECURSIVE BallotsOf(_, _)
BallotsOf(R, cs) ==
    IF cs = <<>> THEN <<>>
    ELSE get_candidate_ballots(R, Head(cs)) \o BallotsOf(R, Tail(cs))

create_new_round_from_pre(current_round) ==
    LET current_round_changed == get_candidates_changed(current_round)
        new_round == NewRound(current_round.round + 1, current_round.pre)
        unchanged == SelectSeq(candidates, LAMBDA c : c \notin current_round_changed)
    IN  add_ballots(add_ballots(new_round, BallotsOf(current_round, unchanged)),
                    get_candidate_ballots(current_round, NoCandidate))

create_new_round_all_ballots(current_round) ==
    LET new_round == NewRound(current_round.round + 1, current_round.post)
    IN  add_ballots(add_ballots(new_round, BallotsOf(current_round, candidates)),
                    get_candidate_ballots(current_round, NoCandidate))

\* create_new_round: the round after current_round.
create_new_round(current_round) ==
    LET current_round_changed == get_candidates_changed(current_round)
        new_round == NewRound(current_round.round + 1, current_round.post)
        unchanged == InOrder(Range(candidates) \ current_round_changed)
    IN  add_ballots(add_ballots(new_round, BallotsOf(current_round, unchanged)),
                    get_candidate_ballots(current_round, NoCandidate))

CastBallot_twice(current_round) ==
    LET transfer_voter == Head(transfer_voters)
        ballot == get_race_voter_ballot(transfer_voter, preferences[transfer_voter],
                      voter_value[transfer_voter],
                      get_candidates_by_state(current_round, "PRE", "RUNNING"))
    IN  add_ballot(add_ballot(current_round, ballot), ballot)

\* The ballot-casting step: the head of the transfer queue casts its ballot.
CastBallot(current_round) ==
    LET transfer_voter == Head(transfer_voters)
    IN  add_ballot(current_round,
                   get_race_voter_ballot(transfer_voter, preferences[transfer_voter],
                       voter_value[transfer_voter],
                       get_candidates_by_state(current_round, "PRE", "RUNNING")))

ReplaceLast(rs, R) == [rs EXCEPT ![Len(rs)] = R]

is_complete_never == FALSE

\* run() returns at once when the race is COMPLETE.
is_complete == state = "COMPLETE"

\* ElectionRace.run: a single step of the race.
run ==
    IF is_complete
    THEN /\ result' = "ok"
         /\ UNCHANGED <<state, rounds, winners, transfer_voters, voter_value>>
    ELSE IF rounds = <<>>
    THEN /\ state' = "TABULATING"
         /\ rounds' = <<FirstRound>>
         /\ transfer_voters' = voters
         /\ result' = "ok"
         /\ UNCHANGED <<winners, voter_value>>
    ELSE IF Last(rounds).state = "COMPLETE"
    THEN /\ state' = "TABULATING"
         /\ rounds' = Append(rounds, create_new_round(Last(rounds)))
         /\ result' = "ok"
         /\ UNCHANGED <<winners, transfer_voters, voter_value>>
    ELSE IF transfer_voters # <<>>
    THEN /\ state' = "TABULATING"
         /\ rounds' = ReplaceLast(rounds, CastBallot(Last(rounds)))
         /\ transfer_voters' = Tail(transfer_voters)
         /\ result' = "ok"
         /\ UNCHANGED <<winners, voter_value>>
    ELSE \E order \in Orders(get_candidates_by_state(Last(rounds), "PRE", "RUNNING")) :
            \E t \in {Tabulate(order)} :
                /\ state' = t.state
                /\ rounds' = ReplaceLast(rounds, t.round)
                /\ winners' = t.winners
                /\ transfer_voters' = t.transfer
                /\ voter_value' = t.values
                /\ result' = t.result

\* ------------------------------------------------------------ the actions
\* No quota object under observation.
NoProvider ==
    [algorithm |-> "none", voters |-> 0, max_winners |-> 0,
     outcome |-> "none", return_value |-> 0]

Init ==
    /\ state = "ADDING"
    /\ max_winners \in 1 .. MaxWinners
    /\ election_quota_algorithm \in {"droop", "hare"}
    /\ voters = <<>>
    /\ rounds = <<>>
    /\ winners = <<>>
    /\ candidates = <<>>
    /\ transfer_voters = <<>>
    /\ candidate_id = <<>>
    /\ preferences = [v \in VoterIds |-> <<>>]
    /\ voter_value = [v \in VoterIds |-> ROne]
    /\ result = "ok"
    /\ pc = "idle"
    /\ quota_provider = NoProvider

is_adding_always == TRUE

\* The check that opens add_voter and add_candidate: the race is still ADDING.
is_adding == state = "ADDING"

already_added_never(c) == FALSE

\* The check of add_candidate for a candidate that is already in the race.
already_added(c) == Contains(candidates, c)

\* ElectionRace.add_voter.  A voter comes with its ranked preferences; the
\* voters are named in the order they first arrive.
add_voter ==
    /\ pc = "idle"
    /\ IF ~is_adding
       THEN /\ result' = "PhaseViolation"
            /\ UNCHANGED <<voters, preferences>>
       ELSE \E v \in 1 .. IF Len(voters) < MaxVoters THEN Len(voters) + 1 ELSE MaxVoters :
                IF Contains(voters, v)
                THEN /\ result' = "ok"
                     /\ UNCHANGED <<voters, preferences>>
                ELSE \E p \in PreferenceLists :
                        /\ voters' = Append(voters, v)
                        /\ preferences' = [preferences EXCEPT ![v] = p]
                        /\ result' = "ok"
    /\ UNCHANGED <<state, max_winners, election_quota_algorithm, rounds, winners,
                   candidates, transfer_voters, candidate_id, voter_value, pc>>
    /\ UNCHANGED quota_provider

\* ElectionRace.add_candidate.  The candidates are named in the order they
\* first arrive.
add_candidate ==
    /\ pc = "idle"
    /\ IF ~is_adding
       THEN /\ result' = "PhaseViolation"
            /\ UNCHANGED <<candidates, candidate_id>>
       ELSE \E c \in 1 .. IF Len(candidates) < MaxCandidates
                          THEN Len(candidates) + 1 ELSE MaxCandidates :
                IF already_added(c)
                THEN /\ result' = "DuplicateCandidate"
                     /\ UNCHANGED <<candidates, candidate_id>>
                ELSE /\ candidate_id' = (c :> c) @@ candidate_id
                     /\ candidates' = Append(candidates, c)
                     /\ result' = "ok"
    /\ UNCHANGED <<state, max_winners, election_quota_algorithm, voters, rounds,
                   winners, transfer_voters, preferences, voter_value, pc>>
    /\ UNCHANGED quota_provider

\* A call of run() by the driver.
run_call ==
    /\ pc = "idle"
    /\ run
    /\ UNCHANGED <<max_winners, election_quota_algorithm, voters, candidates,
                   candidate_id, preferences, pc>>
    /\ UNCHANGED quota_provider

\* A call of run_complete() by the driver: control enters its loop.
run_complete ==
    /\ pc = "idle"
    /\ pc' = "run_complete"
    /\ UNCHANGED <<state, max_winners, election_quota_algorithm, voters, rounds,
                   winners, candidates, transfer_voters, candidate_id, preferences,
                   voter_value, result>>
    /\ UNCHANGED quota_provider

\* The condition of the loop of run_complete().
loop_condition == state # "COMPLETE"

\* One evaluation of the loop of run_complete(): it returns when the race is
\* COMPLETE, else it calls run(), whose error ends the call.
run_complete_loop ==
    /\ pc = "run_complete"
    /\ IF ~loop_condition
       THEN /\ pc' = "idle"
            /\ result' = "ok"
            /\ UNCHANGED <<state, rounds, winners, transfer_voters, voter_value>>
       ELSE /\ run
            /\ pc' = IF result' = "ok" THEN "run_complete" ELSE "idle"
    /\ UNCHANGED <<max_winners, election_quota_algorithm, voters, candidates,
                   candidate_id, preferences>>
    /\ UNCHANGED quota_provider

Next ==
    \/ add_voter
    \/ add_candidate
    \/ run_call
    \/ run_complete
    \/ run_complete_loop

Spec == Init /\ [][Next]_vars

\* --------------------------------------------- run_complete() on its own
\* A race as the add_candidate and add_voter calls leave it, handed to
\* run_complete().
BuiltRace ==
    /\ state = "ADDING"
    /\ max_winners \in 1 .. MaxWinners
    /\ election_quota_algorithm \in {"droop", "hare"}
    /\ \E n \in 0 .. MaxCandidates :
        /\ candidates = [i \in 1 .. n |-> i]
        /\ candidate_id = [i \in 1 .. n |-> i]
    /\ \E n \in 0 .. MaxVoters :
        /\ voters = [i \in 1 .. n |-> i]
        /\ preferences \in [VoterIds -> PreferenceLists]
        /\ \A v \in VoterIds : v > n => preferences[v] = <<>>
    /\ rounds = <<>>
    /\ winners = <<>>
    /\ transfer_voters = <<>>
    /\ voter_value = [v \in VoterIds |-> ROne]
    /\ result = "ok"
    /\ pc = "idle"
    /\ quota_provider = NoProvider

\* The ranked preferences of the ten voters of a race of five candidates for
\* three seats, in which the quota is 3 and candidates 2 and 5 gather exactly
\* the quota in round 1.
OverflowPreferences ==
    << <<4>>, <<3>>, <<5, 1>>, <<2, 3>>, <<3>>,
       <<2, 1>>, <<1>>, <<5, 4>>, <<2, 1>>, <<5, 4>> >>

\* That race as the add_candidate and add_voter calls leave it.
OverflowRace ==
    /\ state = "ADDING"
    /\ max_winners = 3
    /\ election_quota_algorithm = "droop"
    /\ candidates = <<1, 2, 3, 4, 5>>
    /\ candidate_id = <<1, 2, 3, 4, 5>>
    /\ voters = [i \in DOMAIN OverflowPreferences |-> i]
    /\ preferences = OverflowPreferences
    /\ rounds = <<>>
    /\ winners = <<>>
    /\ transfer_voters = <<>>
    /\ voter_value = [v \in DOMAIN OverflowPreferences |-> ROne]
    /\ result = "ok"
    /\ pc = "idle"
    /\ quota_provider = NoProvider

\* A race of the given quota algorithm, seats and number of candidates, whose
\* voters have the preferences prefs, as the add_candidate and add_voter calls
\* leave it.
RaceOf(algorithm, seats, ncandidates, prefs) ==
    /\ state = "ADDING"
    /\ max_winners = seats
    /\ election_quota_algorithm = algorithm
    /\ candidates = [i \in 1 .. ncandidates |-> i]
    /\ candidate_id = [i \in 1 .. ncandidates |-> i]
    /\ voters = [i \in DOMAIN prefs |-> i]
    /\ preferences = prefs
    /\ rounds = <<>>
    /\ winners = <<>>
    /\ transfer_voters = <<>>
    /\ voter_value = [v \in DOMAIN prefs |-> ROne]
    /\ result = "ok"
    /\ pc = "idle"
    /\ quota_provider = NoProvider

\* Three candidates for two seats, quota 2: candidate 1 is elected in round 1
\* with exactly the quota, and in round 2 candidates 2 and 3 both reach the
\* quota for the last seat, tied in round 2 as they were in round 1.
TieRace ==
    RaceOf("hare", 2, 3, << <<1, 2>>, <<1, 3>>, <<2>>, <<3>> >>)

\* Three candidates for two seats, quota 3: candidate 1 is elected in round 1
\* with exactly the quota, and in round 2 candidates 2 and 3 both reach the
\* quota for the last seat, tied in round 2 but not in round 1.
LookBackRace ==
    RaceOf("hare", 2, 3, << <<1, 2>>, <<1, 3>>, <<1, 3>>, <<2>>, <<2>>, <<3>> >>)

RunCompleteInit ==
    \/ BuiltRace
    \/ OverflowRace
    \/ TieRace
    \/ LookBackRace

RunCompleteNext ==
    \/ run_complete
    \/ run_complete_loop

\* run_complete() is a loop without a pause: once entered, it keeps stepping.
LiveSpec == RunCompleteInit /\ [][RunCompleteNext]_vars /\ WF_vars(run_complete_loop)

\* ------------------------------------------------ the quota objects alone
\* HareQuota(voters, max_winners) and DroopQuota(voters, max_winners) as
\* constructed, get_quota() not yet called.
QuotaProviders ==
    [algorithm : {"droop", "hare"},
     voters : (0 - MaxQuotaInvalid) .. MaxQuotaVoters,
     max_winners : (0 - MaxQuotaInvalid) .. MaxQuotaWinners,
     outcome : {"new"},
     return_value : {0}]

QuotaInit ==
    /\ state = "ADDING"
    /\ max_winners = 1
    /\ election_quota_algorithm = "droop"
    /\ voters = <<>>
    /\ rounds = <<>>
    /\ winners = <<>>
    /\ candidates = <<>>
    /\ transfer_voters = <<>>
    /\ candidate_id = <<>>
    /\ preferences = [v \in VoterIds |-> <<>>]
    /\ voter_value = [v \in VoterIds |-> ROne]
    /\ result = "ok"
    /\ pc = "idle"
    /\ quota_provider \in QuotaProviders

\* A call of get_quota() on the quota object.
get_quota ==
    /\ quota_provider.outcome = "new"
    /\ quota_provider' =
        IF /\ quota_provider.algorithm = "hare"
           /\ HareQuotaRaises(quota_provider.voters, quota_provider.max_winners)
        THEN [quota_provider EXCEPT !.outcome = "ZeroDivisionError"]
        ELSE [quota_provider EXCEPT
                 !.outcome = "returned",
                 !.return_value = quotaOf(quota_provider.algorithm, quota_provider.voters,
                                          quota_provider.max_winners)]
    /\ UNCHANGED <<state, max_winners, election_quota_algorithm, voters, rounds, winners,
                   candidates, transfer_voters, candidate_id, preferences, voter_value,
                   result, pc>>

QuotaSpec == QuotaInit /\ [][get_quota]_vars

\* C4: run_complete() terminates: once its loop is entered, it returns, with
\* the race COMPLETE unless a step failed with the tie-resolution error.
C4_RunCompleteTerminates ==
    (pc = "run_complete")
        ~> (pc = "idle" /\ (state = "COMPLETE" \/ result = "UnresolvableTie"))

\* ------------------------------------------------------------ properties
Rank(st) == CASE st = "ADDING" -> 0 [] st = "TABULATING" -> 1 [] st = "COMPLETE" -> 2

WonIn(k, c) == rounds[k].post[c] = ElectionCandidateState(k, "WON")

EliminatedIn(k, c) == rounds[k].post[c] = ElectionCandidateState(k, "ELIMINATED")

RunningIn(k) == get_candidates_by_state(rounds[k], "PRE", "RUNNING")

Score(k, c) == get_candidate_score(rounds[k], c)

MeetsQuota(k, c) == RLeq(RInt(quota), Score(k, c))

\* The collapse rule admits the RUNNING candidates of round k: they fit the
\* seats left by the winners of the earlier rounds.
CollapseAdmits(k) ==
    Cardinality(RunningIn(k))
        <= max_winners - Cardinality(get_candidates_by_state(rounds[k], "PRE", "WON"))

\* C1: the race never has more winners than max_winners, and whenever it has
\* max_winners winners it is COMPLETE.
C1_WinnersBounded ==
    /\ Len(winners) <= max_winners
    /\ Len(winners) = max_winners => state = "COMPLETE"

C1_Witness ==
    /\ Len(winners) = max_winners
    /\ state = "COMPLETE"
    /\ Len(candidates) > max_winners
    /\ result = "ok"

\* C2: the race state only moves forward, ADDING then TABULATING then
\* COMPLETE: no step lowers it, a step of run() on an ADDING race makes it
\* TABULATING, and a COMPLETE race stays COMPLETE.
C2_StateMovesForward ==
    [][/\ Rank(state') >= Rank(state)
       /\ (state = "ADDING" /\ (run_call \/ run_complete_loop)) => state' = "TABULATING"
       /\ state = "COMPLETE" => state' = "COMPLETE"]_vars

C2_Witness ==
    /\ state = "COMPLETE"
    /\ result = "PhaseViolation"
    /\ Len(rounds) >= 2

\* C3: run() and run_complete() on a COMPLETE race change nothing of the
\* race: its rounds, winners, transfer queue, voters' values and state.
C3_CompleteRaceUnchanged ==
    [][(state = "COMPLETE" /\ (run_call \/ run_complete \/ run_complete_loop))
           => UNCHANGED <<rounds, winners, transfer_voters, voter_value, state>>]_vars

\* run_complete() has been called on a race that was already COMPLETE (the
\* call before it was a rejected add) and is about to return.
C3_Witness ==
    /\ state = "COMPLETE"
    /\ pc = "run_complete"
    /\ result = "PhaseViolation"
    /\ winners # <<>>

\* C5: WON and ELIMINATED are final: a candidate whose post-state in a round
\* is WON or ELIMINATED has that very state (the kind and the round that
\* assigned it) as pre-state and as post-state in every later round.
C5_TerminalStatesSticky ==
    \A i, j \in 1 .. Len(rounds) : \A c \in Range(candidates) :
        (i < j /\ rounds[i].post[c].kind \in {"WON", "ELIMINATED"})
            => /\ rounds[j].pre[c] = rounds[i].post[c]
               /\ rounds[j].post[c] = rounds[i].post[c]

\* A candidate elected in round 1 while a later round elected or eliminated
\* other candidates.
C5_Witness ==
    /\ Len(rounds) >= 2
    /\ rounds[Len(rounds)].state = "COMPLETE"
    /\ \E c, d \in Range(candidates) :
        /\ WonIn(1, c)
        /\ rounds[Len(rounds)].post[d].round = Len(rounds)
        /\ rounds[Len(rounds)].post[d].kind # "RUNNING"

\* C6: in every round after the first, each candidate's pre-state is its
\* post-state of the round before.
C6_PreStateIsPreviousPostState ==
    \A k \in 2 .. Len(rounds) : \A c \in Range(candidates) :
        rounds[k].pre[c] = rounds[k - 1].post[c]

\* A second round exists, after a round that changed a candidate's state.
C6_Witness ==
    /\ Len(rounds) >= 2
    /\ \E c \in Range(candidates) : rounds[1].pre[c] # rounds[1].post[c]
    /\ \E c \in Range(candidates) : rounds[2].pre[c].kind = "RUNNING"

\* C7: a candidate set to WON in round k met the quota in round k, or was
\* admitted by the collapse rule of round k.
C7_WinnersMeetQuotaOrCollapse ==
    \A k \in 1 .. Len(rounds) : \A c \in Range(candidates) :
        WonIn(k, c) => MeetsQuota(k, c) \/ CollapseAdmits(k)

\* Both cases have happened: a winner by quota in a round the collapse rule
\* did not apply to, and a winner by the collapse rule below the quota.
C7_Witness ==
    /\ \E k \in 1 .. Len(rounds) : \E c \in Range(candidates) :
        WonIn(k, c) /\ MeetsQuota(k, c) /\ ~CollapseAdmits(k)
    /\ \E k \in 1 .. Len(rounds) : \E c \in Range(candidates) :
        WonIn(k, c) /\ ~MeetsQuota(k, c) /\ CollapseAdmits(k)

\* Round k was tabulated and elected no candidate.
NoWinnerRound(k) ==
    /\ rounds[k].state = "COMPLETE"
    /\ \A c \in Range(candidates) : ~WonIn(k, c)

\* c is tied at the lowest score among the RUNNING candidates of round k with
\* a non-zero score.
LowestNonZero(k, c) ==
    /\ c \in RunningIn(k)
    /\ Score(k, c) # RZero
    /\ \A d \in RunningIn(k) : Score(k, d) # RZero => RLeq(Score(k, c), Score(k, d))

\* C8: a tabulation that elects no candidate eliminates, in that round, every
\* RUNNING candidate of score 0 and every RUNNING candidate tied at the lowest
\* non-zero score.
C8_EliminatesZeroAndLowestNonZero ==
    \A k \in 1 .. Len(rounds) : \A c \in Range(candidates) :
        (NoWinnerRound(k) /\ c \in RunningIn(k)
                /\ (Score(k, c) = RZero \/ LowestNonZero(k, c)))
            => EliminatedIn(k, c)

\* C9: a race without voters becomes COMPLETE during round 1, with no winner.
C9_NoVotersNoWinners ==
    (voters = <<>> /\ Len(rounds) >= 1 /\ rounds[1].state = "COMPLETE")
        => state = "COMPLETE" /\ Len(rounds) = 1 /\ winners = <<>>

\* C10: when the candidates are no more than max_winners, the tabulation of
\* round 1 sets every candidate to WON and appends it to the winners, whatever
\* its score.
C10_FewCandidatesAllWin ==
    (Len(candidates) <= max_winners /\ Len(rounds) >= 1 /\ rounds[1].state = "COMPLETE")
        => \A c \in Range(candidates) : WonIn(1, c) /\ Contains(winners, c)

\* Two candidates for two seats, one of them elected with a score of 0 while
\* the other got votes.
C10_Witness ==
    /\ Len(candidates) = 2
    /\ max_winners = 2
    /\ rounds # <<>>
    /\ rounds[1].state = "COMPLETE"
    /\ \E c, d \in Range(candidates) :
        /\ Score(1, c) = RZero
        /\ Score(1, d) # RZero
        /\ WonIn(1, c)
        /\ Contains(winners, c)

\* The next step of run() is the tabulation of the current round: the round
\* is INCOMPLETE and every queued voter has cast its ballot.
AtTabulation ==
    /\ state # "COMPLETE"
    /\ rounds # <<>>
    /\ Last(rounds).state = "INCOMPLETE"
    /\ transfer_voters = <<>>

\* A step of run(), called directly or from the loop of run_complete().
RunStep == run_call \/ (run_complete_loop /\ loop_condition)

\* Candidates a and b are the only RUNNING candidates, one seat remains, and
\* the two have equal scores in the current round and in every earlier one.
TiedPairForLastSeat(a, b) ==
    /\ a # b
    /\ RunningIn(Len(rounds)) = {a, b}
    /\ max_winners - Len(winners) = 1
    /\ \A k \in 1 .. Len(rounds) : Score(k, a) = Score(k, b)

\* C11: the tabulation of two RUNNING candidates tied in every round for the
\* one remaining seat fails with the tie-resolution error: it elects none of
\* them and eliminates none of them.  Stated for the pairs that hold votes,
\* the case of a race whose voters are split evenly between the two.
C11_TiedPairIsUnresolvable ==
    [][(AtTabulation /\ RunStep
            /\ \E a, b \in Range(candidates) :
                TiedPairForLastSeat(a, b) /\ Score(Len(rounds), a) # RZero)
        => /\ result' = "UnresolvableTie"
           /\ UNCHANGED <<rounds, winners>>]_vars

\* C12: a step of run() that fails with the tie-resolution error changes
\* nothing of the race (rounds with their candidate states, flags and ballots,
\* winners, transfer queue, voters' values, state); from then on the race is
\* never COMPLETE, and every further step of run() fails the same way.
C12_TieFailureCommitsNothing ==
    /\ [][/\ (RunStep /\ result' = "UnresolvableTie")
                => UNCHANGED <<rounds, winners, transfer_voters, voter_value, state>>
          /\ (RunStep /\ result = "UnresolvableTie") => result' = "UnresolvableTie"]_vars
    /\ [](result = "UnresolvableTie" => [](state # "COMPLETE"))

\* A step of run() failed in round 2 on a tie for the last seat, a winner
\* having been elected in round 1, and run_complete() has returned.
C12_Witness ==
    /\ result = "UnresolvableTie"
    /\ pc = "idle"
    /\ state = "TABULATING"
    /\ Len(rounds) = 2
    /\ winners # <<>>
    /\ Last(rounds).state = "INCOMPLETE"

\* C13: add_voter and add_candidate on a race that is no longer ADDING fail
\* and leave the voters, the candidates, the candidate-id map, the rounds and
\* the race state (and all the rest of the race) unchanged.
C13_AddAfterAddingFails ==
    [][(state # "ADDING" /\ (add_voter \/ add_candidate))
        => /\ result' = "PhaseViolation"
           /\ UNCHANGED <<voters, candidates, candidate_id, rounds, state, preferences,
                          winners, transfer_voters, voter_value>>]_vars

\* An add was rejected while round 1 was being tabulated.
C13_Witness ==
    /\ result = "PhaseViolation"
    /\ state = "TABULATING"
    /\ Len(rounds) = 1
    /\ Len(voters) >= 2
    /\ Len(transfer_voters) = 1

\* C14: during ADDING, add_candidate either appends a candidate that was not
\* in the race, or fails for a candidate already in it and then changes
\* nothing but the outcome of the call, so that the calls that follow see the
\* race as it was.
C14_DuplicateCandidateRejected ==
    [][(state = "ADDING" /\ add_candidate)
        => \/ /\ result' = "DuplicateCandidate"
              /\ UNCHANGED <<state, max_winners, election_quota_algorithm, voters, rounds,
                             winners, candidates, transfer_voters, candidate_id,
                             preferences, voter_value, pc>>
           \/ /\ result' = "ok"
              /\ \E c \in CandidateIds :
                    /\ ~Contains(candidates, c)
                    /\ candidates' = Append(candidates, c)
                    /\ state' = "ADDING"]_vars

\* A duplicate add_candidate was rejected on a race that has two candidates
\* and a voter, and is still ADDING.
C14_Witness ==
    /\ result = "DuplicateCandidate"
    /\ state = "ADDING"
    /\ Len(candidates) = 2
    /\ voters # <<>>

\* The largest integer k with k * b <= a, for a >= 0 and b >= 1.
Floor(a, b) == CHOOSE k \in 0 .. a : k * b <= a /\ a < (k + 1) * b

AtLeastOne(x) == IF x >= 1 THEN x ELSE 1

\* get_quota() was called on a quota object whose inputs are valid.
ValidQuotaCall ==
    /\ quota_provider.outcome \notin {"none", "new"}
    /\ quota_provider.voters >= 0
    /\ quota_provider.max_winners >= 1

\* get_quota() was called on a quota object with voters < 0 or max_winners < 1.
InvalidQuotaCall ==
    /\ quota_provider.outcome \notin {"none", "new"}
    /\ (quota_provider.voters < 0 \/ quota_provider.max_winners < 1)

\* C15: for voters >= 0 and max_winners >= 1 the Hare quota is
\* max(1, floor(voters / max_winners)), the Droop quota is
\* max(1, floor(voters / (max_winners + 1)) + 1) when max_winners > 1 and
\* max(1, floor((voters + 1) / 2)) when max_winners = 1; it is an integer >= 1.
C15_QuotaFormulas ==
    ValidQuotaCall =>
        LET v == quota_provider.voters
            m == quota_provider.max_winners
        IN  /\ quota_provider.outcome = "returned"
            /\ quota_provider.return_value \in Nat
            /\ quota_provider.return_value >= 1
            /\ quota_provider.return_value =
                   IF quota_provider.algorithm = "hare" THEN AtLeastOne(Floor(v, m))
                   ELSE IF m > 1 THEN AtLeastOne(Floor(v, m + 1) + 1)
                   ELSE AtLeastOne(Floor(v + 1, 2))

\* A Droop quota for one seat that differs from the formula for several
\* seats, and that the floor at 1 does not decide.
C15_Witness ==
    /\ ValidQuotaCall
    /\ quota_provider.algorithm = "droop"
    /\ quota_provider.max_winners = 1
    /\ quota_provider.voters = 6
    /\ quota_provider.return_value = 3

\* C16 as claimed: the quota computation with voters < 0 or max_winners < 1
\* ends in an error and returns no quota.
C16_InvalidInputFails ==
    InvalidQuotaCall => quota_provider.outcome # "returned"

\* C16 as the code has it: the inputs are not validated.  With voters < 0 or
\* max_winners < 1 the Droop quota returns 1, the Hare quota fails with a
\* division by zero when max_winners = 0 and else returns 1, or the truncated
\* quotient of two negative inputs when that is larger.
C16_InvalidInputNotChecked ==
    InvalidQuotaCall =>
        LET v == quota_provider.voters
            m == quota_provider.max_winners
        IN  IF quota_provider.algorithm = "hare" /\ m = 0
            THEN quota_provider.outcome = "ZeroDivisionError"
            ELSE /\ quota_provider.outcome = "returned"
                 /\ quota_provider.return_value =
                        IF quota_provider.algorithm = "hare" /\ v < 0 /\ m < 0
                        THEN AtLeastOne(Floor(0 - v, 0 - m))
                        ELSE 1

\* A Droop quota of 1 returned for a race of twelve voters and no seat.
C16_Witness ==
    /\ InvalidQuotaCall
    /\ quota_provider.algorithm = "droop"
    /\ quota_provider.max_winners = 0
    /\ quota_provider.voters = 12
    /\ quota_provider.outcome = "returned"
    /\ quota_provider.return_value = 1

\* The ballots of voter v in round R, over the buckets of the candidates and
\* the bucket of the exhausted ballots.
BallotsOfVoter(R, v) ==
    {b \in UNION {{<<c, i>> : i \in 1 .. Len(R.ballots[c])} : c \in DOMAIN R.ballots} :
        R.ballots[b[1]][b[2]].voter = v}

\* The number of times voter v is in the transfer queue.
TimesQueued(v) == Cardinality({i \in 1 .. Len(transfer_voters) : transfer_voters[i] = v})

\* C17: when a round is about to be tabulated every voter of the race has
\* exactly one ballot in it, over all its buckets; and no voter is ever in the
\* transfer queue more than once.
C17_OneBallotPerVoter ==
    /\ AtTabulation =>
        \A v \in Range(voters) : Cardinality(BallotsOfVoter(Last(rounds), v)) = 1
    /\ \A v \in Range(voters) : TimesQueued(v) <= 1

\* Voter v has a ballot in bucket c of round R.
VotesFor(R, v, c) == \E i \in 1 .. Len(R.ballots[c]) : R.ballots[c][i].voter = v

\* A round after the first is about to be tabulated: it holds a ballot carried
\* over from the round before and a ballot cast again, for another candidate
\* or exhausted.
C17_Witness ==
    /\ AtTabulation
    /\ Len(rounds) >= 2
    /\ Len(voters) = 3
    /\ \E v \in Range(voters), c \in Range(candidates) :
        /\ VotesFor(rounds[Len(rounds) - 1], v, c)
        /\ VotesFor(Last(rounds), v, c)
    /\ \E v \in Range(voters), c \in Range(candidates) :
       \E d \in Range(candidates) \cup {NoCandidate} :
        /\ c # d
        /\ VotesFor(rounds[Len(rounds) - 1], v, c)
        /\ VotesFor(Last(rounds), v, d)

\* Every ballot of round R: the buckets of the candidates, then the exhausted
\* ballots.
AllBallots(R) == BallotsOf(R, candidates) \o get_candidate_ballots(R, NoCandidate)

\* The sum of the current transfer values of the voters vs.
RECURSIVE SumVoterValues(_)
SumVoterValues(vs) ==
    IF vs = <<>> THEN RZero
    ELSE RAdd(voter_value[Head(vs)], SumVoterValues(Tail(vs)))

\* C18: when a round is about to be tabulated, the sum of the values of all
\* its ballots equals the sum of the transfer values of the voters of the
\* race; and a winner committed with a score s above the quota leaves its
\* voters with transfer values that sum to exactly s - quota.
C18_ValueConserved ==
    /\ AtTabulation =>
        SumValues(AllBallots(Last(rounds))) = SumVoterValues(voters)
    /\ (rounds # <<>> /\ Last(rounds).state = "COMPLETE") =>
        \A c \in Range(candidates) :
            (WonIn(Len(rounds), c) /\ RLess(RInt(quota), Score(Len(rounds), c)))
                => SumVoterValues(get_candidate_voters(Last(rounds), c))
                       = RSub(Score(Len(rounds), c), RInt(quota))

\* A round is about to be tabulated with a ballot of fractional value, cast by
\* a voter of a winner elected above the quota in the round before.
C18_Witness ==
    /\ AtTabulation
    /\ Len(rounds) >= 2
    /\ \E c \in Range(candidates) :
        /\ WonIn(Len(rounds) - 1, c)
        /\ RLess(RInt(quota), Score(Len(rounds) - 1, c))
        /\ \E v \in Range(voters), d \in Range(candidates) :
            /\ VotesFor(rounds[Len(rounds) - 1], v, c)
            /\ VotesFor(Last(rounds), v, d)
            /\ RLess(RZero, voter_value[v])
            /\ RLess(voter_value[v], ROne)

\* C19: the winners committed in one round stand in the winners list in
\* descending order of their score in that round, whether the quota rule or
\* the collapse rule admitted them.
C19_WinnersInDescendingScore ==
    \A k \in 1 .. Len(rounds) : \A i, j \in 1 .. Len(winners) :
        (i < j /\ WonIn(k, winners[i]) /\ WonIn(k, winners[j]))
            => RLeq(Score(k, winners[j]), Score(k, winners[i]))

\* What two races stepped in lockstep can be compared on after a tabulation
\* with outcome t: the state of the race, the number of rounds, the states
\* and scores of the candidates in the round, the winners in sequence.
Observed(t) ==
    [state |-> t.state, round_count |-> Len(rounds), round_state |-> t.round.state,
     post |-> t.round.post, scores |-> get_candidates_score(t.round),
     winners |-> t.winners, result |-> t.result]

\* C20: in a race with voters, a tabulation step has the same round count,
\* candidate states, scores and winners sequence whatever the iteration order
\* of the set of RUNNING candidates: the step taken agrees with the
\* tabulation under every order.
C20_TabulationDeterministic ==
    [][(AtTabulation /\ RunStep /\ voters # <<>>) =>
        \A order \in Orders(RunningIn(Len(rounds))) :
            Observed(Tabulate(order))
                = [state |-> state', round_count |-> Len(rounds'),
                   round_state |-> Last(rounds').state, post |-> Last(rounds').post,
                   scores |-> get_candidates_score(Last(rounds')),
                   winners |-> winners', result |-> result']]_vars

\* The RUNNING candidates of the current round that meet the quota.
QuotaMeeters == {c \in RunningIn(Len(rounds)) : MeetsQuota(Len(rounds), c)}

\* The next step of run() is a tabulation with an overflow: the quota rule
\* applies and admits more candidates than seats remain.
AtOverflow ==
    /\ AtTabulation
    /\ ~CollapseAdmits(Len(rounds))
    /\ Cardinality(QuotaMeeters) > max_winners - Len(winners)

\* C21: a tabulation step with an overflow either fails with the
\* tie-resolution error or commits at most max_round_winners winners, every
\* dropped candidate having a score no higher than every retained one; it
\* fails in no other way.
C21_OverflowResolvesOrTies ==
    [][(AtOverflow /\ RunStep) =>
        /\ result' \in {"ok", "UnresolvableTie"}
        /\ Len(winners') <= max_winners
        /\ result' = "ok" =>
            \A d \in QuotaMeeters, w \in QuotaMeeters :
                (~Contains(winners', d) /\ Contains(winners', w))
                    => RLeq(Score(Len(rounds), d), Score(Len(rounds), w))]_vars

\* Candidate c is committed as a winner by the step: RUNNING before it, WON
\* in the current round after it.
CommittedByStep(c) ==
    /\ c \in RunningIn(Len(rounds))
    /\ Last(rounds').post[c] = ElectionCandidateState(Len(rounds), "WON")

\* C22: when a tabulation step commits a winner c with score s, the voter of
\* each ballot b of c's bucket gets the transfer value b.value * (s - quota)/s
\* if s > quota and b.value otherwise; and a winner admitted by the quota rule
\* leaves each of its voters a value strictly lower than the ballot's.
C22_TransferValueScaled ==
    [][(AtTabulation /\ RunStep /\ result' = "ok") =>
        \A c \in Range(candidates) : CommittedByStep(c) =>
            LET s == Score(Len(rounds), c)
                bucket == get_candidate_ballots(Last(rounds), c)
            IN  \A n \in 1 .. Len(bucket) :
                    /\ voter_value'[bucket[n].voter]
                           = IF RLess(RInt(quota), s)
                             THEN RMul(bucket[n].value, RDiv(RSub(s, RInt(quota)), s))
                             ELSE bucket[n].value
                    /\ ~CollapseAdmits(Len(rounds))
                           => RLess(voter_value'[bucket[n].voter], bucket[n].value)]_vars

\* The next step of run() casts a ballot: the latest round is INCOMPLETE and
\* the transfer queue is not empty.
AtCasting ==
    /\ state # "COMPLETE"
    /\ rounds # <<>>
    /\ Last(rounds).state = "INCOMPLETE"
    /\ transfer_voters # <<>>

\* The number of ballots of round R, over all its buckets.
BallotCount(R) == Len(AllBallots(R))

\* C23: a ballot-casting step removes exactly the head of the transfer queue,
\* adds exactly one ballot, of that voter, to the latest round, and changes
\* nothing else: the states of the candidates, the winners, the rounds before,
\* the number of rounds, the INCOMPLETE flag of the round, the state of the
\* race and the values of the voters stay as they are.
C23_CastingChangesOnlyQueueAndBallots ==
    [][(AtCasting /\ RunStep) =>
        /\ transfer_voters' = Tail(transfer_voters)
        /\ Len(rounds') = Len(rounds)
        /\ \A k \in 1 .. Len(rounds) - 1 : rounds'[k] = rounds[k]
        /\ Last(rounds').state = "INCOMPLETE"
        /\ Last(rounds').round = Last(rounds).round
        /\ Last(rounds').pre = Last(rounds).pre
        /\ Last(rounds').post = Last(rounds).post
        /\ BallotCount(Last(rounds')) = BallotCount(Last(rounds)) + 1
        /\ \A v \in Range(voters) :
            Cardinality(BallotsOfVoter(Last(rounds'), v))
                = Cardinality(BallotsOfVoter(Last(rounds), v))
                    + (IF v = Head(transfer_voters) THEN 1 ELSE 0)
        /\ \A c \in DOMAIN Last(rounds).ballots :
            \A n \in 1 .. Len(Last(rounds).ballots[c]) :
                Last(rounds').ballots[c][n] = Last(rounds).ballots[c][n]
        /\ winners' = winners
        /\ state' = state
        /\ voter_value' = voter_value
        /\ result' = "ok"]_vars

\* A ballot-casting step has acted in a round after the first and another is
\* due: a voter whose candidate changed state in the round before has cast
\* its ballot again, and a voter is still queued.
C23_Witness ==
    /\ AtCasting
    /\ Len(rounds) >= 2
    /\ winners # <<>>
    /\ \E v \in Range(voters) :
        /\ TimesQueued(v) = 0
        /\ BallotsOfVoter(Last(rounds), v) # {}
        /\ \E c \in get_candidates_changed(rounds[Len(rounds) - 1]) :
            VotesFor(rounds[Len(rounds) - 1], v, c)

\* ------------------------------------------- ElectionRace.get_data_table
\* The party and the name of a candidate, as their ranks in the order of
\* strings: two parties, and names that differ from candidate to candidate.
party(candidate) == candidate % 2

name(candidate) == candidate

\* The order of Python tuples (int, number, int, int): x < y.
KeyLess(x, y) ==
    \/ x[1] < y[1]
    \/ x[1] = y[1] /\ RLess(x[2], y[2])
    \/ x[1] = y[1] /\ x[2] = y[2] /\ x[3] < y[3]
    \/ x[1] = y[1] /\ x[2] = y[2] /\ x[3] = y[3] /\ x[4] < y[4]

\* -1 * x for a score x.
RNeg(x) == <<0 - x[1], x[2]>>

\* The states of the candidates the table of a round shows: the pre-states
\* of an INCOMPLETE round, the post-states of a COMPLETE one.
candidate_states(election_round) ==
    IF election_round.state = "INCOMPLETE" THEN election_round.pre ELSE election_round.post

\* The group of the candidates of a kind in those states.
candidate_state_groups(election_round, kind) ==
    {c \in DOMAIN candidate_states(election_round) :
        candidate_states(election_round)[c].kind = kind}

\* The score of a candidate in the round that gave it its state.
StateScore(election_round, c) ==
    get_candidate_score(rounds[candidate_states(election_round)[c].round], c)

WonKey_latest_first(election_round, c) ==
    <<election_round.round - candidate_states(election_round)[c].round,
      RNeg(StateScore(election_round, c)), party(c), name(c)>>

\* The sort key of a WON candidate.
WonKey(election_round, c) ==
    <<(0 - 1) * (election_round.round - candidate_states(election_round)[c].round),
      RNeg(StateScore(election_round, c)), party(c), name(c)>>

\* The sort key of a RUNNING candidate.
RunningKey(election_round, c) ==
    <<0, RNeg(get_candidate_score(election_round, c)), party(c), name(c)>>

\* The sort key of an ELIMINATED candidate.
EliminatedKey(election_round, c) ==
    <<(0 - 1) * candidate_states(election_round)[c].round,
      RNeg(StateScore(election_round, c)), party(c), name(c)>>

\* sorted(group, key=...): the candidates of S by ascending key, key being the
\* mapping of the candidates to their keys, which differ by the name.
SortedByKey(S, key) ==
    [p \in 1 .. Cardinality(S) |->
        CHOOSE c \in S : Cardinality({d \in S : KeyLess(key[d], key[c])}) = p - 1]

\* The rows of a group: candidate, name, party, state shown and score.
TableRows(group, label, score) ==
    [p \in 1 .. Len(group) |->
        [candidate |-> group[p], name |-> name(group[p]), party |-> party(group[p]),
         state |-> label[group[p]], score |-> score[group[p]]]]

\* ElectionRace.get_data_table: the rows of the table of a round, the WON
\* candidates, then the RUNNING ones, then the ELIMINATED ones.
get_data_table(election_round) ==
    LET previous_round_candidates_changed ==
            IF election_round.round > 1
            THEN get_candidates_changed(rounds[election_round.round - 1]) ELSE {}
        won == candidate_state_groups(election_round, "WON")
        running == candidate_state_groups(election_round, "RUNNING")
        eliminated == candidate_state_groups(election_round, "ELIMINATED")
        table_group_won ==
            SortedByKey(won, [c \in won |-> WonKey(election_round, c)])
        table_group_running ==
            SortedByKey(running, [c \in running |-> RunningKey(election_round, c)])
        table_group_eliminated ==
            SortedByKey(eliminated, [c \in eliminated |-> EliminatedKey(election_round, c)])
    IN  TableRows(table_group_won, [c \in won |-> "WON"],
                  [c \in won |-> StateScore(election_round, c)])
        \o TableRows(table_group_running, [c \in running |-> "RUNNING"],
                     [c \in running |-> get_candidate_score(election_round, c)])
        \o TableRows(table_group_eliminated,
                     [c \in eliminated |->
                         IF election_round.state # "COMPLETE"
                            /\ c \in previous_round_candidates_changed
                         THEN "TRANSFERRING" ELSE "ELIMINATED"],
                     [c \in eliminated |-> StateScore(election_round, c)])

\* The place of a row in the three groups of the table.
GroupOf(row) == CASE row.state = "WON" -> 1 [] row.state = "RUNNING" -> 2 [] OTHER -> 3

\* The round in which the candidate of a row of the table of a round got the
\* state the table shows.
RowRound(election_round, row) == candidate_states(election_round)[row.candidate].round

\* The rows of the table stand in the order of the groups: WON, RUNNING,
\* ELIMINATED.
GroupsInOrder(table) ==
    \A i, j \in 1 .. Len(table) : i < j => GroupOf(table[i]) <= GroupOf(table[j])

C25_CompleteRaceHasNoRunning ==
    /\ state = "COMPLETE" =>
        /\ rounds # <<>>
        /\ Last(rounds).state = "COMPLETE"
        /\ \A c \in Range(candidates) : Last(rounds).post[c].kind \in {"WON", "ELIMINATED"}
    /\ \A k \in 1 .. Len(rounds) :
        /\ rounds[k].round = k
        /\ k < Len(rounds) => rounds[k].state = "COMPLETE"

\* The race is COMPLETE after more than one round, with a candidate elected
\* and a candidate eliminated.
C25_Witness ==
    /\ state = "COMPLETE"
    /\ Len(rounds) >= 2
    /\ \E c, d \in Range(candidates) :
        /\ Last(rounds).post[c].kind = "WON"
        /\ Last(rounds).post[d].kind = "ELIMINATED"

\* C26: the winners list holds no candidate twice, and its candidates are
\* exactly the candidates whose post-state in the latest round is WON; there
\* is no winner before the first round.
C26_WinnersAreTheWonCandidates ==
    /\ \A i, j \in 1 .. Len(winners) : i # j => winners[i] # winners[j]
    /\ rounds = <<>> => winners = <<>>
    /\ rounds # <<>> =>
        Range(winners) = get_candidates_by_state(Last(rounds), "POST", "WON")

\* A round after the first is open with a winner of an earlier round carried
\* into it, a ballot cast again, and a candidate still RUNNING.
C26_Witness ==
    /\ Len(rounds) >= 2
    /\ Last(rounds).state = "INCOMPLETE"
    /\ winners # <<>>
    /\ \E c \in Range(candidates) : WonIn(Len(rounds) - 1, c) /\ Contains(winners, c)
    /\ get_candidates_by_state(Last(rounds), "POST", "RUNNING") # {}
    /\ BallotCount(Last(rounds)) = Len(voters)
    /\ Len(voters) >= 2

=============================================================================
